---- MODULE Spec2Model ----
(***************************************************************************)
(* fakefs (src/fs/fake.c): an overlay that keeps ownership, permissions,   *)
(* device numbers, symlinks and stable inode numbers of the files of a     *)
(* host directory tree in an sqlite sidecar (relations paths and stats,    *)
(* singleton meta).  The model holds the host tree, the two relations, the *)
(* mount lock and the position of every calling thread.                    *)
(***************************************************************************)
EXTENDS Integers, Sequences, FiniteSets, TLC

(***************************************************************************)
(* Bounds of the model.                                                    *)
(***************************************************************************)
\* rows the stats relation may ever receive (the rowid counter is capped here)
MaxInode == 2

(***************************************************************************)
(* Program constants.                                                      *)
(***************************************************************************)
S_IFMT == 61440
S_IFREG == 32768
S_IFDIR == 16384
S_IFLNK == 40960
S_IFBLK == 24576
S_IFCHR == 8192
S_IFIFO == 4096
ENOENT == -2
EINVAL == -22
EPERM == -1
EIO == -5
EEXIST == -17
ENOTDIR == -20
EISDIR == -21
ENOTEMPTY == -39

(***************************************************************************)
(* Universe of inputs.                                                     *)
(***************************************************************************)
Threads == {1, 2}
TopNames == {"a", "b"}
SubNames == {"x"}
\* paths below the mount root: /a, /b, /a/x, /b/x
Paths == {<<n>> : n \in TopNames} \cup {<<n, c>> : n \in TopNames, c \in SubNames}
TopPaths == {<<n>> : n \in TopNames}
\* makedev(7, 3)
Devs == {1795}
\* the caller's effective uid and gid
Creds == {501}
\* mkdir's mode argument: 0755
MkdirModes == {493}
\* setattr's argument: [type, val]
AttrsOf(types) ==
    [type : types \cap {"uid", "gid"}, val : {0}]
        \cup [type : types \cap {"mode"}, val : {S_IFDIR + 448}]
\* An input universe: the paths; open's modes (0644, 0600); setattr's attributes;
\* mknod's modes (a block device 0600); the bytes of symlink targets;
\* readlink's buffer sizes; and what the host may answer beyond what its tree decides
\* (0: as the tree decides, or a fault).
\* The whole tree with few attribute values:
UTree == [paths |-> Paths, creats |-> BOOLEAN, openmodes |-> {420}, attrs |-> AttrsOf({"uid"}),
          mknodmodes |-> {S_IFBLK + 384}, targets |-> {<<1, 2>>}, bufsizes |-> {2},
          faults |-> {0, EIO}]
\* Two names in the root with every attribute value:
UAttr == [paths |-> TopPaths, creats |-> BOOLEAN, openmodes |-> {420, 384},
          attrs |-> AttrsOf({"uid", "gid", "mode"}),
          mknodmodes |-> {S_IFBLK + 384}, targets |-> {<<1, 2>>},
          bufsizes |-> {2}, faults |-> {0, EIO}]
\* Two names in the root with few attribute values, for two threads:
UThreads == [paths |-> TopPaths, creats |-> BOOLEAN, openmodes |-> {420}, attrs |-> AttrsOf({"uid"}),
             mknodmodes |-> {S_IFBLK + 384}, targets |-> {<<1, 2>>}, bufsizes |-> {2},
             faults |-> {0, EIO}]

(***************************************************************************)
(* Bit operations on dword_t values.                                       *)
(***************************************************************************)
RECURSIVE BitAnd(_, _)
BitAnd(a, b) ==
    IF a = 0 \/ b = 0 THEN 0
    ELSE (a % 2) * (b % 2) + 2 * BitAnd(a \div 2, b \div 2)

RECURSIVE BitOr(_, _)
BitOr(a, b) ==
    IF a = 0 THEN b
    ELSE IF b = 0 THEN a
    ELSE (IF a % 2 = 1 \/ b % 2 = 1 THEN 1 ELSE 0) + 2 * BitOr(a \div 2, b \div 2)

S_ISBLK(m) == BitAnd(m, S_IFMT) = S_IFBLK
S_ISCHR(m) == BitAnd(m, S_IFMT) = S_IFCHR
S_ISLNK(m) == BitAnd(m, S_IFMT) = S_IFLNK

(***************************************************************************)
(* Finite maps.                                                            *)
(***************************************************************************)
Put(f, k, v) == [x \in (DOMAIN f) \cup {k} |-> IF x = k THEN v ELSE f[x]]
Del(f, k) == [x \in (DOMAIN f) \ {k} |-> f[x]]
Empty == [x \in {} |-> 0]

(***************************************************************************)
(* The host tree (the passthrough layer realfs and the openat/write/       *)
(* unlinkat calls fakefs makes itself).  A host entry is                   *)
(* [ino, type, data]; hard links share ino.                                *)
(***************************************************************************)
Parent(p) == SubSeq(p, 1, Len(p) - 1)
IsPrefix(d, p) == Len(d) <= Len(p) /\ SubSeq(p, 1, Len(d)) = d
Under(d, p) == Len(d) < Len(p) /\ IsPrefix(d, p)
IsDir(h, p) == p \in DOMAIN h /\ h[p].type = S_IFDIR
\* the error of walking to the parent directory of p, 0 when it is a directory
ParentErr(h, p) ==
    IF Len(p) = 1 THEN 0
    ELSE IF Parent(p) \notin DOMAIN h THEN ENOENT
    ELSE IF h[Parent(p)].type # S_IFDIR THEN ENOTDIR
    ELSE 0
HasChild(h, d) == \E p \in DOMAIN h : Under(d, p)
\* Host inode numbers matter only for telling whether two names are the same file:
\* a file is numbered by the least key of its names, a new file 0 until then
NameKey(n) == CASE n = "a" -> 1 [] n = "b" -> 2 [] OTHER -> 3
RECURSIVE PathKey(_)
PathKey(p) == IF p = <<>> THEN 0 ELSE NameKey(Head(p)) + 4 * PathKey(Tail(p))
FirstName(h, ino) ==
    LET keys == {PathKey(q) : q \in {r \in DOMAIN h : h[r].ino = ino}}
    IN  CHOOSE k \in keys : \A j \in keys : k <= j
Norm(h) == [p \in DOMAIN h |-> [h[p] EXCEPT !.ino = FirstName(h, h[p].ino)]]
HostNew(type, data) == [ino |-> 0, type |-> type, data |-> data]
HostRes(err, h) == [err |-> err, host |-> Norm(h)]

realfs_open(h, path, creat) ==
    IF ParentErr(h, path) # 0 THEN HostRes(ParentErr(h, path), h)
    ELSE IF path \in DOMAIN h
         THEN IF creat /\ h[path].type = S_IFDIR THEN HostRes(EISDIR, h)
              ELSE HostRes(0, h)
    ELSE IF creat THEN HostRes(0, Put(h, path, HostNew(S_IFREG, <<>>)))
    ELSE HostRes(ENOENT, h)

realfs_link(h, src, dst) ==
    IF ParentErr(h, src) # 0 THEN HostRes(ParentErr(h, src), h)
    ELSE IF src \notin DOMAIN h THEN HostRes(ENOENT, h)
    ELSE IF ParentErr(h, dst) # 0 THEN HostRes(ParentErr(h, dst), h)
    ELSE IF dst \in DOMAIN h THEN HostRes(EEXIST, h)
    ELSE IF h[src].type = S_IFDIR THEN HostRes(EPERM, h)
    ELSE HostRes(0, Put(h, dst, h[src]))

realfs_unlink(h, path) ==
    IF ParentErr(h, path) # 0 THEN HostRes(ParentErr(h, path), h)
    ELSE IF path \notin DOMAIN h THEN HostRes(ENOENT, h)
    ELSE IF h[path].type = S_IFDIR THEN HostRes(EISDIR, h)
    ELSE HostRes(0, Del(h, path))

realfs_rmdir(h, path) ==
    IF ParentErr(h, path) # 0 THEN HostRes(ParentErr(h, path), h)
    ELSE IF path \notin DOMAIN h THEN HostRes(ENOENT, h)
    ELSE IF h[path].type # S_IFDIR THEN HostRes(ENOTDIR, h)
    ELSE IF HasChild(h, path) THEN HostRes(ENOTEMPTY, h)
    ELSE HostRes(0, Del(h, path))

\* the tree after src, with everything below it, has moved to dst
Moved(h, src, dst) ==
    LET stay == {p \in DOMAIN h : ~IsPrefix(src, p) /\ ~IsPrefix(dst, p)}
        move == {p \in DOMAIN h : IsPrefix(src, p)}
        to(p) == dst \o SubSeq(p, Len(src) + 1, Len(p))
    IN  [q \in stay \cup {to(p) : p \in move} |->
            IF q \in stay THEN h[q]
            ELSE h[CHOOSE p \in move : to(p) = q]]

realfs_rename(h, src, dst) ==
    IF ParentErr(h, src) # 0 THEN HostRes(ParentErr(h, src), h)
    ELSE IF src \notin DOMAIN h THEN HostRes(ENOENT, h)
    ELSE IF ParentErr(h, dst) # 0 THEN HostRes(ParentErr(h, dst), h)
    ELSE IF Under(src, dst) THEN HostRes(EINVAL, h)
    ELSE IF dst \notin DOMAIN h THEN HostRes(0, Moved(h, src, dst))
    \* the same file under both names (the same path, or two hard links): nothing to do
    ELSE IF h[dst].ino = h[src].ino THEN HostRes(0, h)
    ELSE IF h[src].type = S_IFDIR /\ h[dst].type # S_IFDIR THEN HostRes(ENOTDIR, h)
    ELSE IF h[src].type # S_IFDIR /\ h[dst].type = S_IFDIR THEN HostRes(EISDIR, h)
    ELSE IF HasChild(h, dst) THEN HostRes(ENOTEMPTY, h)
    ELSE HostRes(0, Moved(h, src, dst))

realfs_mknod(h, path, real_mode) ==
    IF ParentErr(h, path) # 0 THEN HostRes(ParentErr(h, path), h)
    ELSE IF path \in DOMAIN h THEN HostRes(EEXIST, h)
    ELSE HostRes(0, Put(h, path, HostNew(BitAnd(real_mode, S_IFMT), <<>>)))

realfs_mkdir(h, path) ==
    IF ParentErr(h, path) # 0 THEN HostRes(ParentErr(h, path), h)
    ELSE IF path \in DOMAIN h THEN HostRes(EEXIST, h)
    ELSE HostRes(0, Put(h, path, HostNew(S_IFDIR, <<>>)))

\* openat(O_WRONLY | O_CREAT | O_EXCL) of an entry that is then written
host_create_excl(h, path) ==
    IF ParentErr(h, path) # 0 THEN HostRes(ParentErr(h, path), h)
    ELSE IF path \in DOMAIN h THEN HostRes(EEXIST, h)
    ELSE HostRes(0, Put(h, path, HostNew(S_IFREG, <<>>)))

\* write(fd, data): every name of the file sees the bytes
host_write(h, path, data) ==
    [q \in DOMAIN h |-> IF h[q].ino = h[path].ino THEN [h[q] EXCEPT !.data = data]
                        ELSE h[q]]

realfs_stat(h, path) ==
    IF ParentErr(h, path) # 0 THEN ParentErr(h, path)
    ELSE IF path \notin DOMAIN h THEN ENOENT
    ELSE 0

\* the host never holds a symlink of its own: readlink on an entry says EINVAL
realfs_readlink(h, path) ==
    IF ParentErr(h, path) # 0 THEN ParentErr(h, path)
    ELSE IF path \notin DOMAIN h THEN ENOENT
    ELSE EINVAL

\* ftruncate(fd, 0): the descriptor's file is one of the tree's files (named by
\* path) or a file that has no name left (path = <<>>)
realfs_fsetattr_size(h, path) ==
    IF path = <<>> THEN HostRes(0, h)
    ELSE IF h[path].type = S_IFDIR THEN HostRes(EINVAL, h)
    ELSE HostRes(0, host_write(h, path, <<>>))

\* truncate(path, 0)
realfs_setattr_size(h, path) ==
    IF ParentErr(h, path) # 0 THEN HostRes(ParentErr(h, path), h)
    ELSE IF path \notin DOMAIN h THEN HostRes(ENOENT, h)
    ELSE IF h[path].type = S_IFDIR THEN HostRes(EISDIR, h)
    ELSE HostRes(0, host_write(h, path, <<>>))

(***************************************************************************)
(* The metadata store.  A store value is [paths, stats, seq, die]: the two *)
(* relations as maps, the rowid counter of stats, and whether              *)
(* db_check_error has called die().                                        *)
(***************************************************************************)
VARIABLES host, paths, stats, seq, db_inode, dbfile_ino, mounted,
          lock, pc, cur, fdt, last, dead

vars == <<host, paths, stats, seq, db_inode, dbfile_ino, mounted,
          lock, pc, cur, fdt, last, dead>>

DB == [paths |-> paths, stats |-> stats, seq |-> seq, die |-> FALSE]
ZeroStat == [mode |-> 0, uid |-> 0, gid |-> 0, rdev |-> 0]

\* die(): the process aborts
db_check_error(d, failed) == IF failed THEN [d EXCEPT !.die = TRUE] ELSE d

\* select inode from paths where path = ?
path_get_inode(d, path) == IF path \in DOMAIN d.paths THEN d.paths[path] ELSE 0

\* select inode, stat from stats natural join paths where path = ?
path_read_stat(d, path) ==
    IF path \in DOMAIN d.paths /\ d.paths[path] \in DOMAIN d.stats
    THEN [exists |-> TRUE, inode |-> d.paths[path], stat |-> d.stats[d.paths[path]]]
    ELSE [exists |-> FALSE, inode |-> 0, stat |-> ZeroStat]

\* the rowid an insert into stats receives (inode INTEGER PRIMARY KEY AUTOINCREMENT)
\* A rowid that is the one of the Stat inserted before, not a new one.
last_insert_rowid_stale(d) == IF d.seq = 0 THEN 1 ELSE d.seq

last_insert_rowid(d) == d.seq + 1

\* insert into stats (stat) values (?); insert into paths values (?, last_insert_rowid())
path_create(d, path, stat) ==
    LET rowid == last_insert_rowid(d)
        d1 == [d EXCEPT !.stats = Put(@, rowid, stat), !.seq = rowid]
    IN  IF path \in DOMAIN d1.paths THEN db_check_error(d1, TRUE)
        ELSE [d1 EXCEPT !.paths = Put(@, path, rowid)]

\* select stat from stats where inode = ?
inode_read_stat(d, inode) ==
    IF inode \in DOMAIN d.stats THEN [d |-> d, stat |-> d.stats[inode]]
    ELSE [d |-> db_check_error(d, TRUE), stat |-> ZeroStat]

\* update stats set stat = ? where inode = ?
inode_write_stat(d, inode, stat) ==
    IF inode \in DOMAIN d.stats THEN [d EXCEPT !.stats = Put(@, inode, stat)] ELSE d

\* path_link binding dst to last_insert_rowid() instead of the inode of src.
path_link_rowid(d, src, dst) ==
    LET inode == path_get_inode(d, src)
    IN  IF inode = 0 THEN db_check_error(d, TRUE)
        ELSE IF dst \in DOMAIN d.paths THEN db_check_error(d, TRUE)
        ELSE [d EXCEPT !.paths = Put(@, dst, d.seq)]

\* insert into paths (path, inode) values (?, ?)
path_link(d, src, dst) ==
    LET inode == path_get_inode(d, src)
    IN  IF inode = 0 THEN db_check_error(d, TRUE)
        ELSE IF dst \in DOMAIN d.paths THEN db_check_error(d, TRUE)
        ELSE [d EXCEPT !.paths = Put(@, dst, inode)]

\* path_unlink deleting the Stat of the path as well.
path_unlink_stat(d, path) ==
    [d EXCEPT !.paths = Del(@, path),
              !.stats = [i \in (DOMAIN d.stats) \ {path_get_inode(d, path)} |-> d.stats[i]]]

\* path_unlink deleting by inode: every Path record of the file goes.
path_unlink_inode(d, path) ==
    [d EXCEPT !.paths = [q \in {r \in DOMAIN d.paths :
                                  d.paths[r] # path_get_inode(d, path)} |-> d.paths[q]]]

\* delete from paths where path = ?
path_unlink(d, path) == [d EXCEPT !.paths = Del(@, path)]

\* update or replace paths set path = ? [dst] where path = ? [src]
path_rename(d, src, dst) ==
    IF src \notin DOMAIN d.paths \/ src = dst THEN d
    ELSE [d EXCEPT !.paths = Put(Del(Del(@, dst), src), dst, d.paths[src])]

(***************************************************************************)
(* Threads.  pc[t] is the position of thread t: "idle" (in no verb, or     *)
(* entering one), "begin" (an open that has made its host call and is at   *)
(* db_begin) or "txn" (between db_begin and db_commit/db_rollback).        *)
(* cur[t] holds the arguments and the host descriptor of an open that has  *)
(* made its host call, fdt[t] the descriptor the thread holds (its         *)
(* fake_inode), and last the return the caller has not taken yet: the      *)
(* thread, the verb, its arguments, the code its host call gave (0 when it *)
(* succeeded or was not made), the value returned, and the host tree and   *)
(* the store the verb started from.                                        *)
(***************************************************************************)
NoCur == [path |-> <<>>, creat |-> FALSE]
NoFd == 0
Pre == [host |-> host, paths |-> paths, stats |-> stats]
NoLast == [t |-> 0, verb |-> "none", path |-> <<>>, arg |-> <<>>, herr |-> 0,
           ret |-> 0, out |-> <<>>, pre |-> [host |-> Empty, paths |-> Empty, stats |-> Empty]]
Ret(t, verb, path, arg, herr, ret, out) ==
    [t |-> t, verb |-> verb, path |-> path, arg |-> arg, herr |-> herr, ret |-> ret,
     out |-> out, pre |-> Pre]

Init ==
    /\ host = Empty
    /\ paths = Empty
    /\ stats = Empty
    /\ seq = 0
    /\ db_inode = 1
    /\ dbfile_ino = 1
    /\ mounted = TRUE
    /\ lock = 0
    /\ pc = [t \in Threads |-> "idle"]
    /\ cur = [t \in Threads |-> NoCur]
    /\ fdt = [t \in Threads |-> NoFd]
    /\ last = NoLast
    /\ dead = FALSE

\* the mount is in use and the caller has taken what the last verb returned
Running == mounted /\ ~dead /\ last = NoLast

\* db_begin without lock(&mount->lock).
db_begin_nolock(t) ==
    /\ Running
    /\ pc[t] \in {"idle", "begin"}
    /\ lock' = t
    /\ pc' = [pc EXCEPT ![t] = "txn"]
    /\ UNCHANGED <<host, paths, stats, seq, db_inode, dbfile_ino, mounted, cur,
                   fdt, last, dead>>

\* lock(&mount->lock); begin.  A thread is at db_begin when it enters a verb whose
\* first statement it is, or when its open has made the host call.
db_begin(t) ==
    /\ Running
    /\ pc[t] \in {"idle", "begin"}
    /\ lock = 0
    /\ lock' = t
    /\ pc' = [pc EXCEPT ![t] = "txn"]
    /\ UNCHANGED <<host, paths, stats, seq, db_inode, dbfile_ino, mounted, cur,
                   fdt, last, dead>>

\* commit; unlock(&mount->lock)
db_commit(d) ==
    /\ paths' = d.paths
    /\ stats' = d.stats
    /\ seq' = d.seq
    /\ lock' = 0

\* db_rollback without unlock(&mount->lock).
db_rollback_held == UNCHANGED <<paths, stats, seq, lock>>

\* rollback; unlock(&mount->lock)
db_rollback ==
    /\ UNCHANGED <<paths, stats, seq>>
    /\ lock' = 0

\* the verb returns to its caller
Return(t, r) ==
    /\ pc' = [pc EXCEPT ![t] = "idle"]
    /\ cur' = [cur EXCEPT ![t] = NoCur]
    /\ last' = r
    /\ UNCHANGED <<db_inode, dbfile_ino, mounted, dead>>

\* die(): the process is gone; what the transaction wrote is not committed
Die(h) ==
    /\ dead' = TRUE
    /\ host' = h
    /\ UNCHANGED <<paths, stats, seq, db_inode, dbfile_ino, mounted, lock, pc, cur,
                   fdt, last>>

\* the end of a transaction that ran to db_commit unless the store died in it
Commit(t, d, h, r) ==
    IF d.die THEN Die(h)
    ELSE /\ db_commit(d)
         /\ host' = h
         /\ Return(t, r)

Rollback(t, h, r) ==
    /\ db_rollback
    /\ host' = h
    /\ Return(t, r)

\* thread t is inside the transaction of verb v
InTxn(t, v) == Running /\ pc[t] = "txn" /\ (v = "open" <=> cur[t] # NoCur)
\* thread t may enter a verb whose first statement is a host call
AtEntry(t) == Running /\ pc[t] = "idle"
\* the rowid counter has room for the rows the verbs in flight may insert
Room == seq + Cardinality({u \in Threads : cur[u].creat}) < MaxInode
\* the host's answer: the fault injected, or what the tree decides
Host(fault, res) == IF fault < 0 THEN HostRes(fault, host) ELSE res

(***************************************************************************)
(* The verbs.  Each takes its arguments from the input universe U.         *)
(***************************************************************************)
\* fakefs_open, lines 143-145: realfs.open, made before db_begin
fakefs_open_host(t, U) ==
    /\ AtEntry(t)
    /\ fdt[t] = NoFd
    /\ \E path \in U.paths, creat \in U.creats, fault \in U.faults :
        /\ creat => Room
        /\ LET r == Host(fault, realfs_open(host, path, creat))
           IN  IF r.err < 0
               THEN /\ Return(t, Ret(t, "open", path, <<creat, 0>>, r.err, r.err, NoFd))
                    /\ UNCHANGED <<host, paths, stats, seq, lock, fdt>>
               ELSE /\ host' = r.host
                    /\ cur' = [cur EXCEPT ![t] = [path |-> path, creat |-> creat]]
                    /\ pc' = [pc EXCEPT ![t] = "begin"]
                    /\ UNCHANGED <<paths, stats, seq, db_inode, dbfile_ino, mounted, lock,
                                   fdt, last, dead>>

\* fakefs_open taking O_CREAT alone to decide: path_create also for a path that
\* has a Path record.
open_creates_always(creat, fake_inode) == creat

\* The ish_stat of a created file without S_IFREG.
open_ishstat_notype(mode, cred) ==
    [mode |-> mode, uid |-> cred, gid |-> cred, rdev |-> 0]

\* The ish_stat fakefs_open gives a file it creates (lines 149-153).
open_ishstat(mode, cred) ==
    [mode |-> BitOr(mode, S_IFREG), uid |-> cred, gid |-> cred, rdev |-> 0]

\* Whether fakefs_open creates the Path record (lines 148 and 154).
open_creates(creat, fake_inode) == creat /\ fake_inode = 0

\* fakefs_open, lines 147-166: the transaction and the check of fake_inode
fakefs_open(t, U) ==
    /\ InTxn(t, "open")
    /\ \E mode \in U.openmodes, cred \in Creds :
        LET path == cur[t].path
            creat == cur[t].creat
            inode0 == path_get_inode(DB, path)
            ishstat == open_ishstat(mode, cred)
            creates == open_creates(creat, inode0)
            d == IF creates THEN path_create(DB, path, ishstat) ELSE DB
            fake_inode == IF creates THEN path_get_inode(d, path) ELSE inode0
        IN  IF fake_inode = 0
            THEN \* fd_close(fd); return ERR_PTR(_ENOENT)
                 /\ Commit(t, d, host, Ret(t, "open", path, <<creat, mode>>, 0, ENOENT, NoFd))
                 /\ UNCHANGED fdt
            ELSE /\ Commit(t, d, host, Ret(t, "open", path, <<creat, mode>>, 0, 0, fake_inode))
                 /\ fdt' = IF d.die THEN fdt ELSE [fdt EXCEPT ![t] = fake_inode]

fakefs_link(t, U) ==
    /\ InTxn(t, "link")
    /\ \E src \in U.paths, dst \in U.paths, fault \in U.faults :
        LET r == Host(fault, realfs_link(host, src, dst))
        IN  IF r.err < 0
            THEN Rollback(t, r.host, Ret(t, "link", src, dst, r.err, r.err, <<>>))
            ELSE Commit(t, path_link(DB, src, dst), r.host, Ret(t, "link", src, dst, 0, 0, <<>>))
    /\ UNCHANGED fdt

\* fakefs_unlink without the test of err: the Path record goes whatever the host said.
fakefs_unlink_nocheck(t, U) ==
    /\ InTxn(t, "unlink")
    /\ \E path \in U.paths, fault \in U.faults :
        LET r == Host(fault, realfs_unlink(host, path))
        IN  Commit(t, path_unlink(DB, path), r.host,
                   Ret(t, "unlink", path, <<>>, r.err, r.err, <<>>))
    /\ UNCHANGED fdt

fakefs_unlink(t, U) ==
    /\ InTxn(t, "unlink")
    /\ \E path \in U.paths, fault \in U.faults :
        LET r == Host(fault, realfs_unlink(host, path))
        IN  IF r.err < 0
            THEN Rollback(t, r.host, Ret(t, "unlink", path, <<>>, r.err, r.err, <<>>))
            ELSE Commit(t, path_unlink(DB, path), r.host, Ret(t, "unlink", path, <<>>, 0, 0, <<>>))
    /\ UNCHANGED fdt

fakefs_rmdir(t, U) ==
    /\ InTxn(t, "rmdir")
    /\ \E path \in U.paths, fault \in U.faults :
        LET r == Host(fault, realfs_rmdir(host, path))
        IN  IF r.err < 0
            THEN Rollback(t, r.host, Ret(t, "rmdir", path, <<>>, r.err, r.err, <<>>))
            ELSE Commit(t, path_unlink(DB, path), r.host, Ret(t, "rmdir", path, <<>>, 0, 0, <<>>))
    /\ UNCHANGED fdt

fakefs_rename(t, U) ==
    /\ InTxn(t, "rename")
    /\ \E src \in U.paths, dst \in U.paths, fault \in U.faults :
        LET r == Host(fault, realfs_rename(host, src, dst))
        IN  IF r.err < 0
            THEN Rollback(t, r.host, Ret(t, "rename", src, dst, r.err, r.err, <<>>))
            ELSE Commit(t, path_rename(DB, src, dst), r.host, Ret(t, "rename", src, dst, 0, 0, <<>>))
    /\ UNCHANGED fdt

\* fakefs_symlink, lines 217-244.  errno_map() after a failed openat reads the
\* errno openat left: db_rollback, which runs between the two, is taken to
\* leave errno as it found it.
fakefs_symlink(t, U) ==
    /\ InTxn(t, "symlink")
    /\ Room
    /\ \E target \in U.targets, link \in U.paths, fault \in U.faults, wfault \in U.faults,
          cred \in Creds :
        LET r == Host(fault, host_create_excl(host, link))
            ishstat == [mode |-> BitOr(S_IFLNK, 511), uid |-> cred, gid |-> cred, rdev |-> 0]
        IN  IF r.err < 0
            THEN Rollback(t, r.host, Ret(t, "symlink", link, target, r.err, r.err, <<>>))
            ELSE IF wfault < 0
            THEN \* the write failed: unlinkat(link), rollback, the write's errno
                 Rollback(t, Del(r.host, link), Ret(t, "symlink", link, target, wfault, wfault, <<>>))
            ELSE Commit(t, path_create(DB, link, ishstat), host_write(r.host, link, target),
                        Ret(t, "symlink", link, target, 0, 0, <<>>))
    /\ UNCHANGED fdt

\* fakefs_mknod recording dev for every file type.
fakefs_mknod_rdev(t, U) ==
    /\ InTxn(t, "mknod")
    /\ Room
    /\ \E path \in U.paths, mode \in U.mknodmodes, dev \in Devs, fault \in U.faults,
          cred \in Creds :
        LET real_mode == IF S_ISBLK(mode) \/ S_ISCHR(mode) THEN BitOr(438, S_IFREG)
                         ELSE BitOr(438, BitAnd(mode, S_IFMT))
            r == Host(fault, realfs_mknod(host, path, real_mode))
            stat == [mode |-> mode, uid |-> cred, gid |-> cred, rdev |-> dev]
        IN  IF r.err < 0
            THEN Rollback(t, r.host, Ret(t, "mknod", path, <<mode, dev>>, r.err, r.err, <<>>))
            ELSE Commit(t, path_create(DB, path, stat), r.host,
                        Ret(t, "mknod", path, <<mode, dev>>, r.err, r.err, <<>>))
    /\ UNCHANGED fdt

fakefs_mknod(t, U) ==
    /\ InTxn(t, "mknod")
    /\ Room
    /\ \E path \in U.paths, mode \in U.mknodmodes, dev \in Devs, fault \in U.faults,
          cred \in Creds :
        LET real_mode == IF S_ISBLK(mode) \/ S_ISCHR(mode) THEN BitOr(438, S_IFREG)
                         ELSE BitOr(438, BitAnd(mode, S_IFMT))
            r == Host(fault, realfs_mknod(host, path, real_mode))
            stat == [mode |-> mode, uid |-> cred, gid |-> cred,
                     rdev |-> IF S_ISBLK(mode) \/ S_ISCHR(mode) THEN dev ELSE 0]
        IN  IF r.err < 0
            THEN Rollback(t, r.host, Ret(t, "mknod", path, <<mode, dev>>, r.err, r.err, <<>>))
            ELSE Commit(t, path_create(DB, path, stat), r.host,
                        Ret(t, "mknod", path, <<mode, dev>>, r.err, r.err, <<>>))
    /\ UNCHANGED fdt

fakefs_mkdir(t, U) ==
    /\ InTxn(t, "mkdir")
    /\ Room
    /\ \E path \in U.paths, mode \in MkdirModes, fault \in U.faults, cred \in Creds :
        LET r == Host(fault, realfs_mkdir(host, path))
            ishstat == [mode |-> BitOr(mode, S_IFDIR), uid |-> cred, gid |-> cred, rdev |-> 0]
        IN  IF r.err < 0
            THEN Rollback(t, r.host, Ret(t, "mkdir", path, mode, r.err, r.err, <<>>))
            ELSE Commit(t, path_create(DB, path, ishstat), r.host,
                        Ret(t, "mkdir", path, mode, 0, 0, <<>>))
    /\ UNCHANGED fdt

\* the statbuf of the host with inode, mode, uid, gid and rdev taken from the store
Project(h, path, inode, ishstat) ==
    [inode |-> inode, mode |-> ishstat.mode, uid |-> ishstat.uid, gid |-> ishstat.gid,
     rdev |-> ishstat.rdev, size |-> Len(h[path].data)]
NoStatbuf == [inode |-> 0, mode |-> 0, uid |-> 0, gid |-> 0, rdev |-> 0, size |-> 0]

\* what fakefs_stat returns: [commit, ret, out]
stat_result(d, h, path, fault) ==
    LET rs == path_read_stat(d, path)
        err == IF fault < 0 THEN fault ELSE realfs_stat(h, path)
    IN  IF ~rs.exists THEN [commit |-> FALSE, ret |-> ENOENT, out |-> NoStatbuf]
        ELSE IF err < 0 THEN [commit |-> TRUE, ret |-> err, out |-> NoStatbuf]
        ELSE [commit |-> TRUE, ret |-> 0, out |-> Project(h, path, rs.inode, rs.stat)]

fakefs_stat(t, U) ==
    /\ InTxn(t, "stat")
    /\ \E path \in U.paths, fault \in U.faults :
        LET r == stat_result(DB, host, path, fault)
        IN  IF r.commit THEN Commit(t, DB, host, Ret(t, "stat", path, <<>>, 0, r.ret, r.out))
            ELSE Rollback(t, host, Ret(t, "stat", path, <<>>, 0, r.ret, r.out))
    /\ UNCHANGED fdt

\* fakefs_fstat, lines 291-293: realfs.fstat, made before db_begin, fails.  (It reads
\* the host descriptor and changes nothing: when it succeeds the thread is at
\* db_begin as on entry.)
fakefs_fstat_host(t, U) ==
    /\ AtEntry(t)
    /\ fdt[t] # NoFd
    /\ \E fault \in U.faults \ {0} :
        /\ Return(t, Ret(t, "fstat", <<>>, fdt[t], fault, fault, NoStatbuf))
        /\ UNCHANGED <<host, paths, stats, seq, lock, fdt>>

\* fakefs_fstat, lines 294-303
fakefs_fstat(t, U) ==
    /\ InTxn(t, "fstat")
    /\ fdt[t] # NoFd
    /\ LET r == inode_read_stat(DB, fdt[t])
           out == [inode |-> fdt[t], mode |-> r.stat.mode, uid |-> r.stat.uid,
                   gid |-> r.stat.gid, rdev |-> r.stat.rdev, size |-> 0]
       IN  Commit(t, r.d, host, Ret(t, "fstat", <<>>, fdt[t], 0, 0, out))
    /\ UNCHANGED fdt

\* fake_stat_setattr storing attr.mode as it comes, type bits included.
fake_stat_setattr_raw(ishstat, attr) ==
    CASE attr.type = "uid" -> [ishstat EXCEPT !.uid = attr.val]
      [] attr.type = "gid" -> [ishstat EXCEPT !.gid = attr.val]
      [] attr.type = "mode" -> [ishstat EXCEPT !.mode = attr.val]
      [] OTHER -> ishstat

fake_stat_setattr(ishstat, attr) ==
    CASE attr.type = "uid" -> [ishstat EXCEPT !.uid = attr.val]
      [] attr.type = "gid" -> [ishstat EXCEPT !.gid = attr.val]
      [] attr.type = "mode" ->
            [ishstat EXCEPT !.mode = BitOr(BitAnd(ishstat.mode, S_IFMT),
                                           attr.val - BitAnd(attr.val, S_IFMT))]
      [] OTHER -> ishstat

\* fakefs_setattr with attr.type == attr_size: realfs.setattr alone
fakefs_setattr_size(t, U) ==
    /\ AtEntry(t)
    /\ \E path \in U.paths, fault \in U.faults :
        LET r == Host(fault, realfs_setattr_size(host, path))
        IN  /\ host' = r.host
            /\ Return(t, Ret(t, "setattr_size", path, 0, r.err, r.err, <<>>))
    /\ UNCHANGED <<paths, stats, seq, lock, fdt>>

fakefs_setattr(t, U) ==
    /\ InTxn(t, "setattr")
    /\ \E path \in U.paths, attr \in U.attrs :
        LET rs == path_read_stat(DB, path)
            ishstat == fake_stat_setattr(rs.stat, attr)
        IN  IF ~rs.exists
            THEN Rollback(t, host, Ret(t, "setattr", path, attr, 0, ENOENT, <<>>))
            ELSE Commit(t, inode_write_stat(DB, rs.inode, ishstat), host,
                        Ret(t, "setattr", path, attr, 0, 0, <<>>))
    /\ UNCHANGED fdt

\* fakefs_fsetattr with attr.type == attr_size: realfs.fsetattr alone
fakefs_fsetattr_size(t, U) ==
    /\ AtEntry(t)
    /\ fdt[t] # NoFd
    /\ \E path \in ((DOMAIN host) \cap U.paths) \cup {<<>>}, fault \in U.faults :
        LET r == Host(fault, realfs_fsetattr_size(host, path))
        IN  /\ host' = r.host
            /\ Return(t, Ret(t, "fsetattr_size", <<>>, fdt[t], r.err, r.err, <<>>))
    /\ UNCHANGED <<paths, stats, seq, lock, fdt>>

fakefs_fsetattr(t, U) ==
    /\ InTxn(t, "fsetattr")
    /\ fdt[t] # NoFd
    /\ \E attr \in U.attrs :
        LET r == inode_read_stat(DB, fdt[t])
            ishstat == fake_stat_setattr(r.stat, attr)
        IN  Commit(t, inode_write_stat(r.d, fdt[t], ishstat), host,
                   Ret(t, "fsetattr", <<>>, <<fdt[t], attr>>, 0, 0, <<>>))
    /\ UNCHANGED fdt

\* file_readlink keeping the last byte of buf for a terminator: read(fd, buf, bufsize - 1)
file_readlink_short(h, path, bufsize) ==
    IF ParentErr(h, path) # 0 THEN [ret |-> ParentErr(h, path), buf |-> <<>>]
    ELSE IF path \notin DOMAIN h THEN [ret |-> ENOENT, buf |-> <<>>]
    ELSE IF h[path].type = S_IFDIR THEN [ret |-> EISDIR, buf |-> <<>>]
    ELSE LET room == IF bufsize > 0 THEN bufsize - 1 ELSE 0
             n == IF Len(h[path].data) < room THEN Len(h[path].data) ELSE room
         IN  [ret |-> n, buf |-> SubSeq(h[path].data, 1, n)]

\* openat(O_RDONLY); read(fd, buf, bufsize)
file_readlink(h, path, bufsize) ==
    IF ParentErr(h, path) # 0 THEN [ret |-> ParentErr(h, path), buf |-> <<>>]
    ELSE IF path \notin DOMAIN h THEN [ret |-> ENOENT, buf |-> <<>>]
    ELSE IF h[path].type = S_IFDIR THEN [ret |-> EISDIR, buf |-> <<>>]
    ELSE LET n == IF Len(h[path].data) < bufsize THEN Len(h[path].data) ELSE bufsize
         IN  [ret |-> n, buf |-> SubSeq(h[path].data, 1, n)]

\* what fakefs_readlink returns: [commit, ret, buf]
readlink_result(d, h, path, bufsize, fault) ==
    LET rs == path_read_stat(d, path)
        err == IF fault < 0 THEN fault ELSE realfs_readlink(h, path)
    IN  IF ~rs.exists THEN [commit |-> FALSE, ret |-> ENOENT, buf |-> <<>>]
        ELSE IF ~S_ISLNK(rs.stat.mode) THEN [commit |-> FALSE, ret |-> EINVAL, buf |-> <<>>]
        ELSE IF err = EINVAL
             THEN [commit |-> TRUE] @@ file_readlink(h, path, bufsize)
        ELSE [commit |-> TRUE, ret |-> err, buf |-> <<>>]

fakefs_readlink(t, U) ==
    /\ InTxn(t, "readlink")
    /\ \E path \in U.paths, bufsize \in U.bufsizes, fault \in U.faults :
        LET r == readlink_result(DB, host, path, bufsize, fault)
        IN  IF r.commit
            THEN Commit(t, DB, host, Ret(t, "readlink", path, bufsize, 0, r.ret, r.buf))
            ELSE Rollback(t, host, Ret(t, "readlink", path, bufsize, 0, r.ret, r.buf))
    /\ UNCHANGED fdt

\* realfs_close
realfs_close(t) ==
    /\ Running
    /\ pc[t] = "idle"
    /\ fdt[t] # NoFd
    /\ fdt' = [fdt EXCEPT ![t] = NoFd]
    /\ UNCHANGED <<host, paths, stats, seq, db_inode, dbfile_ino, mounted, lock, pc,
                   cur, last, dead>>

(***************************************************************************)
(* Mount and unmount.                                                      *)
(***************************************************************************)
\* fakefs_rebuild: the paths whose host entry is gone are dropped, the others keep
\* their inode
fakefs_rebuild(d, h) ==
    [d EXCEPT !.paths = [p \in (DOMAIN d.paths) \cap (DOMAIN h) |-> d.paths[p]]]

\* The sweep with a subquery that is never empty: no Stat is deleted.
delete_orphaned_stats_none(d) == d

\* The sweep with its subquery comparing the wrong column: no Stat is kept.
delete_orphaned_stats_all(d) == [d EXCEPT !.stats = Empty]

\* delete from stats where not exists (select 1 from paths where inode = stats.inode)
delete_orphaned_stats(d) ==
    [d EXCEPT !.stats = [i \in {j \in DOMAIN d.stats :
                                   \E p \in DOMAIN d.paths : d.paths[p] = j} |-> d.stats[i]]]

\* The steps mount takes on the store, in the order it takes them.
mount_steps(stored, actual) ==
    IF stored # actual THEN <<"rebuild", "save", "sweep">> ELSE <<"save", "sweep">>

\* fakefs_mount with the sweep moved before the comparison of inodes.
fakefs_mount_sweepfirst ==
    /\ ~mounted /\ ~dead /\ last = NoLast
    /\ LET d1 == delete_orphaned_stats(DB)
           d2 == IF db_inode # dbfile_ino THEN fakefs_rebuild(d1, host) ELSE d1
       IN  /\ paths' = d2.paths
           /\ stats' = d2.stats
           /\ seq' = d2.seq
    /\ db_inode' = dbfile_ino
    /\ lock' = 0
    /\ mounted' = TRUE
    /\ last' = [NoLast EXCEPT !.verb = "mount", !.arg = <<db_inode, dbfile_ino>>,
                              !.out = mount_steps(db_inode, dbfile_ino), !.pre = Pre]
    /\ UNCHANGED <<host, dbfile_ino, pc, cur, fdt, dead>>

fakefs_mount ==
    /\ ~mounted /\ ~dead /\ last = NoLast
    /\ LET d1 == IF db_inode # dbfile_ino THEN fakefs_rebuild(DB, host) ELSE DB
           d2 == delete_orphaned_stats(d1)
       IN  /\ paths' = d2.paths
           /\ stats' = d2.stats
           /\ seq' = d2.seq
    /\ db_inode' = dbfile_ino
    /\ lock' = 0
    /\ mounted' = TRUE
    /\ last' = [NoLast EXCEPT !.verb = "mount", !.arg = <<db_inode, dbfile_ino>>,
                              !.out = mount_steps(db_inode, dbfile_ino), !.pre = Pre]
    /\ UNCHANGED <<host, dbfile_ino, pc, cur, fdt, dead>>

fakefs_umount ==
    /\ Running
    /\ \A t \in Threads : pc[t] = "idle" /\ fdt[t] = NoFd
    /\ mounted' = FALSE
    /\ UNCHANGED <<host, paths, stats, seq, db_inode, dbfile_ino, lock, pc, cur, fdt,
                   last, dead>>

\* the tree and meta.db are copied elsewhere while unmounted: meta.db has a new inode
Renumber ==
    /\ ~mounted /\ ~dead
    /\ dbfile_ino' = 3 - dbfile_ino
    /\ UNCHANGED <<host, paths, stats, seq, db_inode, mounted, lock, pc, cur, fdt,
                   last, dead>>

(***************************************************************************)
(* Specifications.                                                         *)
(***************************************************************************)
Step(t, U) ==
    \/ db_begin(t)
    \/ fakefs_open_host(t, U)
    \/ fakefs_open(t, U)
    \/ fakefs_link(t, U)
    \/ fakefs_unlink(t, U)
    \/ fakefs_rmdir(t, U)
    \/ fakefs_rename(t, U)
    \/ fakefs_symlink(t, U)
    \/ fakefs_mknod(t, U)
    \/ fakefs_mkdir(t, U)
    \/ fakefs_stat(t, U)
    \/ fakefs_fstat_host(t, U)
    \/ fakefs_fstat(t, U)
    \/ fakefs_setattr_size(t, U)
    \/ fakefs_setattr(t, U)
    \/ fakefs_fsetattr_size(t, U)
    \/ fakefs_fsetattr(t, U)
    \/ fakefs_readlink(t, U)
    \/ realfs_close(t)

\* the caller takes what the verb returned
Resume ==
    /\ last # NoLast
    /\ last' = NoLast
    /\ UNCHANGED <<host, paths, stats, seq, db_inode, dbfile_ino, mounted, lock, pc, cur,
                   fdt, dead>>

\* One thread at a time on the whole tree, across unmounts and mounts.
Next ==
    \/ Step(1, UTree)
    \/ Resume
    \/ fakefs_mount
    \/ fakefs_umount
    \/ Renumber

Spec == Init /\ [][Next]_vars

\* One thread at a time on two names, with every attribute value.
NextAttr ==
    \/ Step(1, UAttr)
    \/ Resume

SpecAttr == Init /\ [][NextAttr]_vars

\* Two threads.
NextThreads ==
    \/ \E t \in Threads : Step(t, UThreads)
    \/ Resume

SpecThreads == Init /\ [][NextThreads]_vars

\* Two threads that each open the one path "a" with O_CREAT, once, over a host that
\* answers as its tree decides.  The store is empty; the host tree may hold files
\* that have no Path record, at "a" too.
UCreat == [paths |-> {<<"a">>}, creats |-> {TRUE}, openmodes |-> {420, 384},
           attrs |-> AttrsOf({"uid"}), mknodmodes |-> {S_IFBLK + 384},
           targets |-> {<<1, 2>>}, bufsizes |-> {2}, faults |-> {0}]
CreatHosts ==
    LET Files == [ino : {1, 2}, type : {S_IFREG}, data : {<<>>, <<1, 2>>}]
        Trees == UNION {[S -> Files] : S \in SUBSET TopPaths}
    IN  {Norm(h) : h \in {g \in Trees : \A p, q \in DOMAIN g :
                                          g[p].ino = g[q].ino => g[p] = g[q]}}
InitCreat ==
    /\ host \in CreatHosts
    /\ paths = Empty
    /\ stats = Empty
    /\ seq = 0
    /\ db_inode = 1
    /\ dbfile_ino = 1
    /\ mounted = TRUE
    /\ lock = 0
    /\ pc = [t \in Threads |-> "idle"]
    /\ cur = [t \in Threads |-> NoCur]
    /\ fdt = [t \in Threads |-> NoFd]
    /\ last = NoLast
    /\ dead = FALSE
NextCreat ==
    \/ \E t \in Threads : fakefs_open_host(t, UCreat)
    \/ \E t \in Threads : pc[t] = "begin" /\ db_begin(t)
    \/ \E t \in Threads : fakefs_open(t, UCreat)
    \/ Resume

SpecCreat == InitCreat /\ [][NextCreat]_vars

\* One thread that makes, reads, renames and removes symlinks on two names, with
\* targets of every length up to two bytes and buffers of every size up to three.
ULink == [paths |-> TopPaths, creats |-> BOOLEAN, openmodes |-> {420},
          attrs |-> AttrsOf({"uid"}), mknodmodes |-> {S_IFBLK + 384},
          targets |-> {<<>>, <<1>>, <<1, 2>>, <<2, 1>>}, bufsizes |-> {0, 1, 2, 3},
          faults |-> {0, EIO}]
NextLink ==
    \/ db_begin(1)
    \/ fakefs_symlink(1, ULink)
    \/ fakefs_readlink(1, ULink)
    \/ fakefs_stat(1, ULink)
    \/ fakefs_rename(1, ULink)
    \/ fakefs_unlink(1, ULink)
    \/ Resume

SpecLink == Init /\ [][NextLink]_vars

\* One thread that makes, stats and removes nodes on two names: a block device
\* 0600, a character device 0644, a fifo 0644 and a regular file 0644.
UNod == [paths |-> TopPaths, creats |-> BOOLEAN, openmodes |-> {420},
         attrs |-> AttrsOf({"uid"}),
         mknodmodes |-> {S_IFBLK + 384, S_IFCHR + 420, S_IFIFO + 420, S_IFREG + 420},
         targets |-> {<<1, 2>>}, bufsizes |-> {2}, faults |-> {0, EIO}]
NextNod ==
    \/ db_begin(1)
    \/ fakefs_mknod(1, UNod)
    \/ fakefs_stat(1, UNod)
    \/ fakefs_link(1, UNod)
    \/ fakefs_unlink(1, UNod)
    \/ Resume

SpecNod == Init /\ [][NextNod]_vars

\* Two threads on one name, under fair scheduling: a thread that can take a step
\* again and again takes one (a thread inside a verb runs on: host calls return;
\* a thread waiting in lock() is served when the lock comes free again and again),
\* and the caller takes what a verb returned.
UFair == [paths |-> {<<"a">>}, creats |-> BOOLEAN, openmodes |-> {420},
          attrs |-> AttrsOf({"uid"}), mknodmodes |-> {S_IFBLK + 384},
          targets |-> {<<1, 2>>}, bufsizes |-> {2}, faults |-> {0, EIO}]
NextFair ==
    \/ \E t \in Threads : Step(t, UFair)
    \/ Resume
Fairness ==
    /\ WF_vars(Resume)
    /\ \A t \in Threads : SF_vars(Step(t, UFair))

SpecFair == Init /\ [][NextFair]_vars /\ Fairness

(***************************************************************************)
(* What the verbs guarantee.                                               *)
(***************************************************************************)
\* No verb is between its entry and its return, and the process has not died.
Quiescent == ~dead /\ \A t \in Threads : pc[t] = "idle"

\* The verb that has just returned, in a mounted filesystem that has not died.
Returned(verb) == ~dead /\ last.verb = verb

\* What stat(path) answers in store d over host tree h (fakefs_stat with a host
\* that answers as its tree decides): its return value and its statbuf.
StatAt(d, h, path) ==
    LET r == stat_result(d, h, path, 0) IN [ret |-> r.ret, out |-> r.out]
StatNow(path) == StatAt(DB, host, path)
StatBefore(path) == StatAt([DB EXCEPT !.paths = last.pre.paths, !.stats = last.pre.stats],
                           last.pre.host, path)

\* C1: with one thread, whenever no verb is in progress the set of paths that
\* have a Path record equals the set of entries of the host tree (as the claim
\* states it; fakefs_rename does not keep it).
C1_PathsEqualHostEntries ==
    Quiescent => DOMAIN paths = DOMAIN host

\* The verbs that change the namespace.
NamespaceVerbs == {"open", "link", "unlink", "rmdir", "rename", "symlink", "mknod", "mkdir"}

\* C2: when the host operation of a namespace verb fails, the verb returns the
\* host's error code and paths and stats are what they were before the call.
C2_HostFailureLeavesStore ==
    (~dead /\ last.verb \in NamespaceVerbs /\ last.herr < 0)
        => /\ last.ret = last.herr
           /\ paths = last.pre.paths
           /\ stats = last.pre.stats

\* An unlink of a path that has a Path record has failed on the host.
C2_Witness ==
    /\ Returned("unlink") /\ last.herr < 0
    /\ last.path \in DOMAIN last.pre.paths

\* C3: in every state, before and after a mount's rebuild and sweep of
\* orphaned Stats included, the inode of every Path record has a Stat.
C3_EveryPathHasStat ==
    \A p \in DOMAIN paths : paths[p] \in DOMAIN stats

\* A mount has swept an orphaned Stat away while a Path record remains.
C3_Witness ==
    /\ Returned("mount")
    /\ DOMAIN stats # DOMAIN last.pre.stats
    /\ paths # Empty

\* C4: once every verb has returned, every Path record has an entry in the
\* host tree (as the claim states it; fakefs_open makes its host call before
\* db_begin, so it does not hold with two threads).
C4_EveryPathHasHostEntry ==
    Quiescent => \A p \in DOMAIN paths : p \in DOMAIN host

\* At most one thread is inside a transaction, and it is the holder of the lock.
OneTransaction ==
    /\ \A t, u \in Threads : (pc[t] = "txn" /\ pc[u] = "txn") => t = u
    /\ \A t \in Threads : pc[t] = "txn" => lock = t
    /\ lock # 0 => pc[lock] = "txn"

\* A step that changes paths or stats is the step of the thread that holds the
\* lock and is inside its transaction, which the step ends.
StoreChangedUnderLock ==
    (paths' # paths \/ stats' # stats \/ seq' # seq)
        => (lock # 0 /\ pc[lock] = "txn" /\ pc'[lock] = "idle" /\ lock' = 0)

\* C5: with two threads no two transactions overlap (a second db_begin waits
\* until the first transaction has committed or rolled back), and paths and
\* stats change only in a step of the thread holding the per-mount lock.
C5_TransactionsExcludeEachOther == []OneTransaction /\ [][StoreChangedUnderLock]_vars

\* One thread is inside its transaction while the other, whose open has made
\* its host call, is at db_begin.
C5_Witness ==
    \E t, u \in Threads : pc[t] = "txn" /\ pc[u] = "begin" /\ lock = t

\* C6: two threads each open "a" with O_CREAT when "a" has no Path record (the
\* store is empty).  Under every interleaving the process does not die, and
\* once both have returned exactly one Path record and exactly one Stat have
\* been created and both descriptors carry that one inode.
C6_ConcurrentCreateOnce ==
    /\ ~dead
    /\ Cardinality(DOMAIN paths) <= 1 /\ Cardinality(DOMAIN stats) <= 1
    /\ (\A t \in Threads : pc[t] = "idle" /\ fdt[t] # NoFd)
          => /\ fdt[1] = fdt[2]
             /\ DOMAIN paths = {<<"a">>}
             /\ paths[<<"a">>] = fdt[1]
             /\ DOMAIN stats = {fdt[1]}

\* One open has created the Path record and returned its descriptor while the
\* other, made before that return, is still at db_begin.
C6_Witness ==
    \E t, u \in Threads :
        /\ last.t = t /\ last.verb = "open" /\ last.ret = 0 /\ fdt[t] # NoFd
        /\ last.path \notin DOMAIN last.pre.paths
        /\ pc[u] = "begin" /\ cur[u] = [path |-> last.path, creat |-> TRUE]

\* The inode and the attributes of a statbuf that the store decides.
Attrs(out) == <<out.inode, out.mode, out.uid, out.gid, out.rdev>>

\* The statbuf shows the attribute a setattr or fsetattr has set.
Shows(out, attr) ==
    CASE attr.type = "uid" -> out.uid = attr.val
      [] attr.type = "gid" -> out.gid = attr.val
      [] attr.type = "mode" -> out.mode % 4096 = attr.val % 4096
      [] OTHER -> TRUE

\* Every path that had the Path record of inode before the verb answers stat
\* with that inode and with the attribute the verb has set.
SeenThroughEveryLink(inode, attr) ==
    \A q \in DOMAIN last.pre.paths :
        (last.pre.paths[q] = inode /\ StatNow(q).ret = 0)
            => /\ StatNow(q).out.inode = inode
               /\ Shows(StatNow(q).out, attr)
               /\ \A r \in DOMAIN last.pre.paths :
                      (last.pre.paths[r] = inode /\ StatNow(r).ret = 0)
                          => Attrs(StatNow(r).out) = Attrs(StatNow(q).out)

\* C7: after a successful link(a, b), stat(a) and stat(b) succeed with the same
\* inode, mode, uid, gid and rdev; and after a successful setattr through a
\* path or fsetattr through a descriptor (uid, gid or mode), every path
\* hard-linked to that file shows the new attribute and the paths agree.
C7_LinksShareAttributes ==
    /\ (Returned("link") /\ last.ret = 0)
          => /\ StatNow(last.path).ret = 0
             /\ StatNow(last.arg).ret = 0
             /\ Attrs(StatNow(last.path).out) = Attrs(StatNow(last.arg).out)
    /\ (Returned("setattr") /\ last.ret = 0)
          => SeenThroughEveryLink(last.pre.paths[last.path], last.arg)
    /\ (Returned("fsetattr") /\ last.ret = 0)
          => SeenThroughEveryLink(last.arg[1], last.arg[2])

\* A setattr through one path has changed what stat answers through another
\* path hard-linked to it.
C7_Witness ==
    /\ Returned("setattr") /\ last.ret = 0
    /\ \E q \in DOMAIN paths :
          /\ q # last.path /\ paths[q] = paths[last.path]
          /\ StatNow(q).ret = 0
          /\ StatNow(q).out # StatBefore(q).out

\* C8: after a successful unlink(p), stat(p) answers not found; every other
\* path q that had a Path record answers stat as before, with the same inode,
\* mode, uid, gid and rdev when it succeeds (the hard links of p included);
\* only the Path record of p is removed and no Stat is deleted.
C8_UnlinkRemovesOnePath ==
    (Returned("unlink") /\ last.ret = 0)
        => /\ StatNow(last.path).ret = ENOENT
           /\ \A q \in (DOMAIN last.pre.paths) \ {last.path} :
                 /\ StatNow(q).ret = 0 <=> StatBefore(q).ret = 0
                 /\ Attrs(StatNow(q).out) = Attrs(StatBefore(q).out)
           /\ paths = Del(last.pre.paths, last.path)
           /\ stats = last.pre.stats

\* An unlink has removed one of two paths hard-linked to each other, and stat
\* of the other succeeds.
C8_Witness ==
    /\ Returned("unlink") /\ last.ret = 0
    /\ last.path \in DOMAIN last.pre.paths
    /\ \E q \in DOMAIN paths :
          paths[q] = last.pre.paths[last.path] /\ StatNow(q).ret = 0

\* C9: after a successful rename(src, dst) of a path that has a Path record to
\* another path, stat(src) answers not found, stat(dst) answers with the inode
\* and attributes src had, the Path record of src is gone and dst has one (a
\* previous one replaced), no Stat is deleted, and the host tree has no entry
\* at src and has one at dst (as the claim states it; it fails for a rename
\* between two hard links of one file).
C9_RenameMovesPath ==
    (Returned("rename") /\ last.ret = 0 /\ last.path # last.arg
         /\ last.path \in DOMAIN last.pre.paths)
        => /\ StatNow(last.path).ret = ENOENT
           /\ StatNow(last.arg).ret = 0
           /\ Attrs(StatNow(last.arg).out) = Attrs(StatBefore(last.path).out)
           /\ paths = Put(Del(last.pre.paths, last.path), last.arg,
                          last.pre.paths[last.path])
           /\ stats = last.pre.stats
           /\ last.path \notin DOMAIN host
           /\ last.arg \in DOMAIN host

\* C10 as the claim states it: after open(p, O_CREAT, m) has returned a
\* descriptor, the host file p exists and stat(p) answers mode m | S_IFREG.
\* (It fails when p had a Path record before the open.)
C10_OpenCreatSetsMode ==
    (Returned("open") /\ last.ret = 0 /\ last.arg[1])
        => /\ last.path \in DOMAIN host
           /\ StatNow(last.path).ret = 0
           /\ StatNow(last.path).out.mode = BitOr(last.arg[2], S_IFREG)

\* C10: after open(p, O_CREAT, m) has returned a descriptor, the host file p
\* exists and stat(p) succeeds; its mode is m | S_IFREG if p had no Path record
\* before the open, and the mode p had before the open otherwise.
C10_OpenCreatSetsModeOfNewPath ==
    (Returned("open") /\ last.ret = 0 /\ last.arg[1])
        => /\ last.path \in DOMAIN host
           /\ StatNow(last.path).ret = 0
           /\ StatNow(last.path).out.inode = last.out
           /\ IF last.path \in DOMAIN last.pre.paths
              THEN StatNow(last.path).out.mode
                       = last.pre.stats[last.pre.paths[last.path]].mode
              ELSE StatNow(last.path).out.mode = BitOr(last.arg[2], S_IFREG)

\* An open with O_CREAT and mode 0600 has created the Path record of its path.
C10_Witness ==
    /\ Returned("open") /\ last.ret = 0 /\ last.arg = <<TRUE, 384>>
    /\ last.path \notin DOMAIN last.pre.paths
    /\ last.path \in DOMAIN paths

\* The path the verb was called on had a host entry and no Path record.
OnOrphan == last.path \in DOMAIN last.pre.host /\ last.path \notin DOMAIN last.pre.paths

\* C11: a host entry that has no Path record is invisible: stat, readlink,
\* setattr and open without O_CREAT on its path answer not found, and unlink
\* and rmdir answer what they would answer if the host entry did not exist,
\* not found, leaving the host entry alone (as the claim states it; the verbs
\* that call the host first do act on such an entry).
C11_OrphanHostEntryInvisible ==
    (~dead /\ OnOrphan /\ last.herr # EIO)
        => /\ last.verb \in {"stat", "readlink", "setattr", "setattr_size"}
                 => last.ret = ENOENT
           /\ (last.verb = "open" /\ ~last.arg[1]) => last.ret = ENOENT
           /\ last.verb \in {"unlink", "rmdir"}
                 => /\ last.ret = ENOENT
                    /\ paths = last.pre.paths /\ stats = last.pre.stats

\* What readlink(path, bufsize) answers now, the host answering as its tree decides.
ReadlinkNow(path, bufsize) ==
    LET r == readlink_result(DB, host, path, bufsize, 0) IN [ret |-> r.ret, buf |-> r.buf]

\* C12: after a successful symlink(t, l) the host entry l is a regular file
\* whose content is the bytes of t, the Stat of l has mode S_IFLNK | 0777 and
\* rdev 0, and readlink(l, bufsize) with |t| <= bufsize answers |t| and the
\* bytes of t; a readlink that succeeds into a buffer the content fits in
\* answers the whole content.
C12_SymlinkRoundTrip ==
    /\ (Returned("symlink") /\ last.ret = 0)
          => /\ last.path \in DOMAIN host
             /\ host[last.path].type = S_IFREG
             /\ host[last.path].data = last.arg
             /\ last.path \in DOMAIN paths
             /\ stats[paths[last.path]].mode = S_IFLNK + 511
             /\ stats[paths[last.path]].rdev = 0
             /\ \A b \in ULink.bufsizes :
                    Len(last.arg) <= b
                        => ReadlinkNow(last.path, b)
                               = [ret |-> Len(last.arg), buf |-> last.arg]
    /\ (Returned("readlink") /\ last.ret >= 0 /\ last.path \in DOMAIN host
            /\ Len(host[last.path].data) <= last.arg)
          => last.out = host[last.path].data

\* A symlink with a two-byte target has been made, and a buffer of exactly two
\* bytes reads it back.
C12_Witness ==
    /\ Returned("symlink") /\ last.ret = 0 /\ last.arg = <<2, 1>>
    /\ ReadlinkNow(last.path, 2).buf = <<2, 1>>

\* C13: after a successful mknod(p, mode, dev) the Stat of p has the mode as
\* requested and stat(p) answers it; for a character or block device
\* stat(p).rdev is dev and the host entry is a regular file, and for every
\* other type stat(p).rdev is 0 and the host entry has the requested type.
C13_MknodRecordsModeAndDev ==
    (Returned("mknod") /\ last.ret = 0)
        => LET p == last.path
               mode == last.arg[1]
               dev == last.arg[2]
               type == BitAnd(mode, S_IFMT)
           IN  /\ p \in DOMAIN paths /\ p \in DOMAIN host
               /\ stats[paths[p]].mode = mode
               /\ StatNow(p).ret = 0
               /\ StatNow(p).out.mode = mode
               /\ IF type \in {S_IFBLK, S_IFCHR}
                  THEN StatNow(p).out.rdev = dev /\ host[p].type = S_IFREG
                  ELSE StatNow(p).out.rdev = 0 /\ host[p].type = type

\* A fifo has been made: its Stat has rdev 0 and the host holds a fifo.
C13_Witness ==
    /\ Returned("mknod") /\ last.ret = 0 /\ last.arg[1] = S_IFIFO + 420
    /\ host[last.path].type = S_IFIFO

\* C14: when a mount has completed, every Stat is referenced by a Path record
\* (the orphans present at mount start are gone), and every Stat a Path record
\* references is the Stat it was before the mount, content included; the
\* mount adds no Path record and changes no inode of a Path record.
C14_MountSweepsOrphans ==
    Returned("mount")
        => /\ \A i \in DOMAIN stats : \E p \in DOMAIN paths : paths[p] = i
           /\ \A p \in DOMAIN paths :
                 /\ p \in DOMAIN last.pre.paths /\ paths[p] = last.pre.paths[p]
                 /\ paths[p] \in DOMAIN stats
                 /\ stats[paths[p]] = last.pre.stats[paths[p]]

\* A mount has removed a Stat that no Path record referenced at mount start and
\* has kept a Stat that one references.
C14_Witness ==
    /\ Returned("mount")
    /\ \E i \in (DOMAIN last.pre.stats) \ (DOMAIN stats) :
          \A p \in DOMAIN last.pre.paths : last.pre.paths[p] # i
    /\ \E p \in DOMAIN paths : paths[p] \in DOMAIN stats

\* While no thread is between db_begin and db_commit/db_rollback the lock is free.
LockFreeOutsideTransactions ==
    (\A t \in Threads : pc[t] # "txn") => lock = 0

\* A thread that leaves its transaction held the lock and has released it: the
\* step that ends the transaction is the one db_commit or db_rollback of the verb.
TransactionEndsUnlocked ==
    \A t \in Threads : (pc[t] = "txn" /\ pc'[t] # "txn") => (lock = t /\ lock' = 0)

DescriptorHasStat ==
    (mounted /\ ~dead) => \A t \in Threads : fdt[t] # NoFd => fdt[t] \in DOMAIN stats

\* fstat answers the inode of the descriptor and the attributes of its Stat;
\* fsetattr writes the Stat of the inode of the descriptor and no other, and
\* neither touches a Path record.
DescriptorVerbsUseItsInode ==
    /\ (Returned("fstat") /\ last.ret = 0)
          => /\ last.arg \in DOMAIN last.pre.stats
             /\ last.out.inode = last.arg
             /\ <<last.out.mode, last.out.uid, last.out.gid, last.out.rdev>>
                    = <<last.pre.stats[last.arg].mode, last.pre.stats[last.arg].uid,
                        last.pre.stats[last.arg].gid, last.pre.stats[last.arg].rdev>>
             /\ stats = last.pre.stats /\ paths = last.pre.paths
    /\ (Returned("fsetattr") /\ last.ret = 0)
          => /\ last.arg[1] \in DOMAIN last.pre.stats
             /\ DOMAIN stats = DOMAIN last.pre.stats
             /\ \A i \in (DOMAIN stats) \ {last.arg[1]} : stats[i] = last.pre.stats[i]
             /\ Shows([inode |-> last.arg[1]] @@ stats[last.arg[1]], last.arg[2])
             /\ paths = last.pre.paths

\* Within a mount session no step deletes a Stat, and the inode of a descriptor
\* changes only when the descriptor is closed.
SessionKeepsStatsAndDescriptors ==
    (mounted /\ mounted')
        => /\ \A i \in DOMAIN stats : i \in DOMAIN stats'
           /\ \A t \in Threads :
                 (fdt[t] # NoFd /\ fdt'[t] # fdt[t]) => fdt'[t] = NoFd

\* C16: fstat and fsetattr on a descriptor read and write the Stat of the inode
\* resolved at open, whatever has happened to the path since (rename, unlink,
\* unlink and creation of another file); within a mount session no verb
\* deletes a Stat, so the Stat of a descriptor's inode is always there and
\* fstat does not die on a missing inode.
C16_DescriptorKeepsInode ==
    /\ []DescriptorHasStat
    /\ []DescriptorVerbsUseItsInode
    /\ [][SessionKeepsStatsAndDescriptors]_vars

\* fstat has answered for a descriptor whose inode no Path record references any
\* more, while another file with another inode exists.
C16_Witness ==
    /\ Returned("fstat") /\ last.ret = 0
    /\ \A p \in DOMAIN paths : paths[p] # last.arg
    /\ paths # Empty
    /\ last.out.inode = last.arg

\* The Stat new is the Stat old with the one field of attr set: the type bits
\* of mode stay, a mode sets the other bits of mode, a uid sets uid, a gid sets
\* gid, and rdev stays.
OneFieldSet(old, new, attr) ==
    /\ BitAnd(new.mode, S_IFMT) = BitAnd(old.mode, S_IFMT)
    /\ new.rdev = old.rdev
    /\ IF attr.type = "mode" THEN new.mode % 4096 = attr.val % 4096
                             ELSE new.mode = old.mode
    /\ IF attr.type = "uid" THEN new.uid = attr.val ELSE new.uid = old.uid
    /\ IF attr.type = "gid" THEN new.gid = attr.val ELSE new.gid = old.gid

\* The verb has changed the Stat of inode by the one field of attr and has
\* changed no other Stat and no Path record.
OneStatChanged(inode, attr) ==
    /\ inode \in DOMAIN last.pre.stats
    /\ DOMAIN stats = DOMAIN last.pre.stats
    /\ OneFieldSet(last.pre.stats[inode], stats[inode], attr)
    /\ \A i \in (DOMAIN stats) \ {inode} : stats[i] = last.pre.stats[i]
    /\ paths = last.pre.paths

\* C17: a setattr or fsetattr of mode changes only the bits of mode outside
\* S_IFMT, one of uid only uid, one of gid only gid; the type bits and rdev of
\* a Stat never change; a setattr or fsetattr of size changes no Stat and no
\* Path record.
C17_SetattrKeepsType ==
    /\ (Returned("setattr") /\ last.ret = 0)
          => OneStatChanged(last.pre.paths[last.path], last.arg)
    /\ (Returned("fsetattr") /\ last.ret = 0)
          => OneStatChanged(last.arg[1], last.arg[2])
    /\ (~dead /\ last.verb \in {"setattr_size", "fsetattr_size"})
          => (stats = last.pre.stats /\ paths = last.pre.paths)

\* A setattr of a mode that carries the type bits of a directory has changed
\* the permissions of a file that is not a directory.
C17_Witness ==
    /\ Returned("setattr") /\ last.ret = 0 /\ last.arg.type = "mode"
    /\ BitAnd(last.arg.val, S_IFMT) = S_IFDIR
    /\ BitAnd(stats[paths[last.path]].mode, S_IFMT) = S_IFREG
    /\ stats # last.pre.stats

\* The mount that has just returned invoked Rebuild.
RebuildInvoked == \E k \in DOMAIN last.out : last.out[k] = "rebuild"

\* What a mount that has just returned did: it invoked Rebuild exactly when the
\* stored inode (last.arg[1]) differed from the inode of the metadata file
\* (last.arg[2]); a Rebuild dropped the Path records without a host entry and
\* the sweep that followed dropped their Stats; without Rebuild no Path record
\* changed; the stored inode is now the inode of the metadata file.
MountRebuildsOnRenumber ==
    Returned("mount")
        => /\ RebuildInvoked <=> last.arg[1] # last.arg[2]
           /\ RebuildInvoked
                 => /\ DOMAIN paths = (DOMAIN last.pre.paths) \cap (DOMAIN host)
                    /\ \A i \in DOMAIN stats : \E p \in DOMAIN paths : paths[p] = i
                    /\ \E j, k \in DOMAIN last.out :
                          j < k /\ last.out[j] = "rebuild" /\ last.out[k] = "sweep"
           /\ ~RebuildInvoked => paths = last.pre.paths
           /\ db_inode = dbfile_ino /\ db_inode = last.arg[2]

\* A mount step: the filesystem was unmounted and is mounted.
MountStep == ~mounted /\ mounted'

\* C18: mount invokes Rebuild exactly when the inode of the metadata file
\* differs from the stored one, and before the sweep; while mounted the stored
\* inode is the inode of the metadata file; a mount that finds the metadata
\* file with the inode of the mount before does not invoke Rebuild, and one
\* that finds it with another inode does.
C18_RebuildOnRenumber ==
    /\ []MountRebuildsOnRenumber
    /\ [](mounted => db_inode = dbfile_ino)
    /\ [][(MountStep /\ dbfile_ino = db_inode) => ~RebuildInvoked']_vars
    /\ [][(MountStep /\ dbfile_ino # db_inode) => RebuildInvoked']_vars

\* A mount after a renumbering has rebuilt: a Path record without a host entry
\* is gone, and so is its Stat.
C18_Witness ==
    /\ Returned("mount") /\ RebuildInvoked
    /\ \E p \in (DOMAIN last.pre.paths) \ (DOMAIN paths) :
          /\ last.pre.paths[p] \in DOMAIN last.pre.stats
          /\ last.pre.paths[p] \notin DOMAIN stats

\* The verbs that create a path.
CreateVerbs == {"open", "mkdir", "mknod", "symlink"}

\* The step binds path p to a Stat inserted by the step: its inode is the inode
\* of no Stat, of no Path record and of no descriptor from before the step, and
\* of no other Path record after it.
FreshBinding(p) ==
    /\ p \in DOMAIN paths'
    /\ paths'[p] \in (DOMAIN stats') \ (DOMAIN stats)
    /\ \A q \in DOMAIN paths : paths[q] # paths'[p]
    /\ \A q \in (DOMAIN paths') \ {p} : paths'[q] # paths'[p]
    /\ \A t \in Threads : fdt[t] # paths'[p]

\* The step is a link or a rename that gives p the inode of its source.
DerivedBinding(p) ==
    /\ last'.verb \in {"link", "rename"}
    /\ p = last'.arg
    /\ last'.path \in DOMAIN paths
    /\ paths'[p] = paths[last'.path]
    /\ last'.verb = "rename" => last'.path \notin DOMAIN paths'

\* A step of a session in which a verb that creates a path returns success for
\* a path that had no Path record (for open: with O_CREAT).
CreationStep ==
    /\ mounted /\ mounted' /\ ~dead' /\ last = NoLast
    /\ last'.verb \in CreateVerbs /\ last'.ret = 0
    /\ last'.path \notin DOMAIN paths
    /\ last'.verb = "open" => last'.arg[1]

\* Every creation binds its path freshly; a Path record appears or changes its
\* inode only by such a binding or by a link or rename from its source.
BindingsFreshOrDerived ==
    /\ CreationStep => FreshBinding(last'.path)
    /\ (mounted /\ mounted' /\ ~dead')
          => \A p \in DOMAIN paths' :
                (p \notin DOMAIN paths \/ paths'[p] # paths[p])
                    => \/ last'.verb \in CreateVerbs /\ p = last'.path /\ FreshBinding(p)
                       \/ DerivedBinding(p)

\* Within a session no Stat goes away, so an inode that is the inode of no
\* Stat now has been the inode of none in the session.
SessionKeepsStats ==
    (mounted /\ mounted') => \A i \in DOMAIN stats : i \in DOMAIN stats'

\* C19: within a session every creation of a path binds it to a Stat inserted
\* for it, whose inode no Stat of the session, no Path record and no
\* descriptor has had; Path records come to share an inode only by link or
\* rename; a descriptor on an unlinked file has the inode of no file created
\* later.
C19_CreationBindsFreshStat ==
    /\ [][BindingsFreshOrDerived]_vars
    /\ [][SessionKeepsStats]_vars
    /\ [](\A t \in Threads : fdt[t] # NoFd => fdt[t] \in 1..seq)
    /\ [](\A i \in DOMAIN stats : i \in 1..seq)

\* A directory has been created while a descriptor is open on a file that has
\* been unlinked: the directory has another inode than the descriptor.
C19_Witness ==
    /\ Returned("mkdir") /\ last.ret = 0
    /\ last.path \in DOMAIN paths
    /\ \E t \in Threads :
          /\ fdt[t] # NoFd /\ fdt[t] \in DOMAIN stats
          /\ \A q \in DOMAIN paths : paths[q] # fdt[t]
          /\ paths[last.path] # fdt[t]

\* C20: from a mount where Path records and host entries agree and every
\* Path record has its Stat, no sequence of verbs run one at a time reaches
\* die: path_link finds its source, path_create finds no Path record for its
\* path, inode_read_stat finds its inode.
C20_NoFatalAbort == ~dead

====
